---- MODULE Spec2Model ----
(***************************************************************************)
(* Session enrollment of the Heartspace backend (src/server.js) over the   *)
(* Session / SessionAttendee tables of the add_sessions migration, and its *)
(* artworks, likes, comments and community posts.                          *)
(*                                                                         *)
(* Every prisma call is one atomic step of the store.  A handler is a      *)
(* sequence of such steps; the JavaScript between two awaits runs without  *)
(* interruption, so the checks that follow a read belong to the read's     *)
(* step.  A request's arrival and its first store call are one step: what  *)
(* the handler decides depends only on what that call returns.             *)
(***************************************************************************)
EXTENDS Integers, FiniteSets, Sequences, TLC

\* ------------------------------------------------------------------ bounds
NumUsers == 3
NumProcs == 2
MaxSessions == 1
MaxCap == 2
MaxRequests == 3
MaxArtworks == 1
MaxPosts == 1
MaxToggles == 3

Users == 1..NumUsers
Procs == 1..NumProcs
SessionIds == 1..MaxSessions
\* parseInt(maxAttendees) of the request body: any integer, not validated
CapInputs == 0..MaxCap
ArtworkIds == 1..MaxArtworks
PostIds == 1..MaxPosts

VARIABLES
    Session,          \* table "Session": id -> row (present, userId, maxAttendees)
    SessionAttendee,  \* table "SessionAttendee": number of rows per (sessionId, userId)
    nextSessionId,    \* the SERIAL sequence of "Session".id
    pc,               \* where each in-flight request stands in its handler
    req,              \* the request each handler serves
    resp,             \* the response each handler has sent
    served,           \* how many requests the server has accepted
    Artwork,          \* table "Artwork": id -> row (present, userId)
    Like,             \* table "Like": the rows (id, userId, artworkId)
    Comment,          \* table "Comment": number of rows per artworkId
    nextArtworkId,    \* the id sequence of "Artwork"
    nextLikeId,       \* the id sequence of "Like"
    Post,             \* table "Post": id -> row (present, userId)
    nextPostId,       \* the id sequence of "Post"
    existingLike,     \* the like handler's local: the id findUnique returned, 0 for null
    script,           \* the client of the sequential runs: its requests and what it saw
    authorization     \* the words of each request's Authorization header, where the
                      \* run includes the middleware

vars == <<Session, SessionAttendee, nextSessionId, pc, req, resp, served,
          Artwork, Like, Comment, nextArtworkId, nextLikeId, Post, nextPostId,
          existingLike, script, authorization>>
store == <<Session, SessionAttendee, nextSessionId>>
client == <<script, authorization>>
contentTables == <<Artwork, Like, Comment, nextArtworkId, nextLikeId, Post, nextPostId>>

\* ------------------------------------------------------------------ rows
NoSession == [present |-> FALSE, userId |-> 0, maxAttendees |-> 0]
NoReq == [op |-> "none", userId |-> 0, sessionId |-> 0]
NoResp == [status |-> 0, error |-> "", hasSession |-> FALSE, owner |-> 0, attendees |-> {}]
NoArtwork == [present |-> FALSE, userId |-> 0]
NoPost == [present |-> FALSE, userId |-> 0]
NoHeader == <<>>
NoScript == [steps |-> <<>>, at |-> 0, out |-> <<>>, likes |-> <<>>]

Reply(status, error) ==
    [status |-> status, error |-> error, hasSession |-> FALSE, owner |-> 0, attendees |-> {}]

\* the number of rows of a session: f[1] + ... + f[n]
RECURSIVE SumRows(_, _)
SumRows(f, n) == IF n = 0 THEN 0 ELSE f[n] + SumRows(f, n - 1)

\* session.attendees of findUnique({ include: { attendees: true } })
attendees(sessionId) == {u \in Users : SessionAttendee[sessionId][u] > 0}

\* session.attendees.length
attendeesLength(sessionId) == SumRows(SessionAttendee[sessionId], NumUsers)

\* prisma.session.findUnique({ where: { id } }) returned a row
found(sessionId) == sessionId \in SessionIds /\ Session[sessionId].present

\* res.json(session) with user and attendees included; null when the row is gone
SessionBody(sessionId) ==
    IF found(sessionId)
    THEN [status |-> 200, error |-> "", hasSession |-> TRUE,
          owner |-> Session[sessionId].userId, attendees |-> attendees(sessionId)]
    ELSE Reply(200, "")

\* ------------------------------------------------------------ constraints
\* CREATE UNIQUE INDEX "SessionAttendee_sessionId_userId_key"
UniqueOk_NoIndex(sessionId, userId) == TRUE
UniqueOk(sessionId, userId) == SessionAttendee[sessionId][userId] = 0

\* "SessionAttendee_sessionId_fkey" FOREIGN KEY ... REFERENCES "Session"("id")
FkOk_NoFk(sessionId) == TRUE
FkOk(sessionId) == found(sessionId)

\* ... ON DELETE CASCADE: the attendee rows that go with a deleted session
Cascade_None(sessionId) == SessionAttendee
Cascade(sessionId) ==
    [SessionAttendee EXCEPT ![sessionId] = [u \in Users |-> 0]]

\* -------------------------------------------------------------- handlers
\* res.json / res.status().json: the handler is over and its slot is free again;
\* resp[p] keeps the response until the slot takes its next request
Finish(p, r) ==
    /\ pc' = [pc EXCEPT ![p] = "idle"]
    /\ resp' = [resp EXCEPT ![p] = r]

\* express hands a request to a free handler slot.  Slots are interchangeable: a
\* slot that has served nothing yet goes first, then the lowest free one
Fresh(p) == pc[p] = "idle" /\ req[p] = NoReq

Acceptor(p) ==
    /\ pc[p] = "idle"
    /\ IF \E q \in Procs : Fresh(q)
       THEN Fresh(p) /\ \A q \in Procs : q < p => ~Fresh(q)
       ELSE \A q \in Procs : q < p => pc[q] # "idle"

\* the server takes requests while the model's budget lasts
Arrive(p) == Acceptor(p) /\ served < MaxRequests

\* slot p, chosen by Arrive, starts on request r
Accept(p, r) ==
    /\ pc[p] = "idle"
    /\ served' = served + 1
    /\ req' = [req EXCEPT ![p] = r]

\* the handler awaits its next store call, nothing sent yet
Goto(p, label) ==
    /\ pc' = [pc EXCEPT ![p] = label]
    /\ resp' = [resp EXCEPT ![p] = NoResp]

\* the artwork, like, comment and post tables before any request
InitContent ==
    /\ Artwork = [a \in ArtworkIds |-> NoArtwork]
    /\ Like = {}
    /\ Comment = [a \in ArtworkIds |-> 0]
    /\ nextArtworkId = 1
    /\ nextLikeId = 1
    /\ Post = [i \in PostIds |-> NoPost]
    /\ nextPostId = 1
    /\ existingLike = [p \in Procs |-> 0]

Init ==
    /\ InitContent
    /\ script = NoScript
    /\ authorization = [p \in Procs |-> NoHeader]
    /\ Session = [s \in SessionIds |-> NoSession]
    /\ SessionAttendee = [s \in SessionIds |-> [u \in Users |-> 0]]
    /\ nextSessionId = 1
    /\ pc = [p \in Procs |-> "idle"]
    /\ req = [p \in Procs |-> NoReq]
    /\ resp = [p \in Procs |-> NoResp]
    /\ served = 0

\* POST /api/sessions: one nested create writes the session and its creator's row
CreateSession_NoRow(p, userId, maxAttendees) ==
    /\ nextSessionId <= MaxSessions
    /\ Accept(p, [op |-> "create", userId |-> userId, sessionId |-> nextSessionId])
    /\ Session' = [Session EXCEPT ![nextSessionId] =
                     [present |-> TRUE, userId |-> userId, maxAttendees |-> maxAttendees]]
    /\ UNCHANGED SessionAttendee
    /\ nextSessionId' = nextSessionId + 1
    /\ Finish(p, [status |-> 200, error |-> "", hasSession |-> TRUE,
                  owner |-> userId, attendees |-> {}])

CreateSession(p, userId, maxAttendees) ==
    /\ nextSessionId <= MaxSessions
    /\ LET id == nextSessionId IN
       /\ Accept(p, [op |-> "create", userId |-> userId, sessionId |-> id])
       /\ Session' = [Session EXCEPT ![id] =
                        [present |-> TRUE, userId |-> userId, maxAttendees |-> maxAttendees]]
       /\ SessionAttendee' = [SessionAttendee EXCEPT ![id][userId] = 1]
       /\ nextSessionId' = id + 1
       /\ Finish(p, [status |-> 200, error |-> "", hasSession |-> TRUE,
                     owner |-> userId, attendees |-> {userId}])

\* ---- POST /api/sessions/:id/join
\* session.attendees.some(a => a.userId === userId)
alreadyJoined_Never(sessionId, userId) == FALSE
alreadyJoined(sessionId, userId) == userId \in attendees(sessionId)

\* session.attendees.length >= session.maxAttendees
isFull_Strict(sessionId) == attendeesLength(sessionId) > Session[sessionId].maxAttendees
isFull(sessionId) == attendeesLength(sessionId) >= Session[sessionId].maxAttendees

\* findUnique with the attendees included, then the three checks
JoinFind_FullFirst(p, userId, sessionId) ==
    /\ Accept(p, [op |-> "join", userId |-> userId, sessionId |-> sessionId])
    /\ UNCHANGED store
    /\ IF ~found(sessionId) THEN Finish(p, Reply(404, "Session not found"))
       ELSE IF isFull(sessionId) THEN Finish(p, Reply(400, "Session is full"))
       ELSE IF alreadyJoined(sessionId, userId)
            THEN Finish(p, Reply(400, "Already joined this session"))
       ELSE Goto(p, "join_create")

JoinFind(p, userId, sessionId) ==
    /\ Accept(p, [op |-> "join", userId |-> userId, sessionId |-> sessionId])
    /\ UNCHANGED store
    /\ IF ~found(sessionId) THEN Finish(p, Reply(404, "Session not found"))
       ELSE IF alreadyJoined(sessionId, userId)
            THEN Finish(p, Reply(400, "Already joined this session"))
       ELSE IF isFull(sessionId) THEN Finish(p, Reply(400, "Session is full"))
       ELSE Goto(p, "join_create")

\* prisma.sessionAttendee.create; a constraint violation throws into the catch
JoinCreate_NoCatch(p) ==
    /\ pc[p] = "join_create"
    /\ UNCHANGED <<Session, nextSessionId, req, served>>
    /\ LET s == req[p].sessionId
           u == req[p].userId
       IN IF FkOk(s) /\ UniqueOk(s, u)
          THEN /\ SessionAttendee' = [SessionAttendee EXCEPT ![s][u] = @ + 1]
               /\ Goto(p, "join_refetch")
          ELSE /\ UNCHANGED SessionAttendee
               /\ Goto(p, "join_create")

JoinCreate(p) ==
    /\ pc[p] = "join_create"
    /\ UNCHANGED <<Session, nextSessionId, req, served>>
    /\ LET s == req[p].sessionId
           u == req[p].userId
       IN IF FkOk(s) /\ UniqueOk(s, u)
          THEN /\ SessionAttendee' = [SessionAttendee EXCEPT ![s][u] = @ + 1]
               /\ Goto(p, "join_refetch")
          ELSE /\ UNCHANGED SessionAttendee
               /\ Finish(p, Reply(500, "Failed to join session"))

\* the second findUnique and res.json(updatedSession)
JoinRefetch(p) ==
    /\ pc[p] = "join_refetch"
    /\ UNCHANGED <<store, req, served>>
    /\ Finish(p, SessionBody(req[p].sessionId))

\* ---- POST /api/sessions/:id/leave
\* session.userId === userId
isCreator_Never(sessionId, userId) == FALSE
isCreator(sessionId, userId) == Session[sessionId].userId = userId

\* findUnique, then session.userId: a null session throws a TypeError into the catch
LeaveFind(p, userId, sessionId) ==
    /\ Accept(p, [op |-> "leave", userId |-> userId, sessionId |-> sessionId])
    /\ UNCHANGED store
    /\ IF ~found(sessionId) THEN Finish(p, Reply(500, "Failed to leave session"))
       ELSE IF isCreator(sessionId, userId)
            THEN Finish(p, Reply(400, "Cannot leave a session you created"))
       ELSE Goto(p, "leave_delete")

\* prisma.sessionAttendee.deleteMany({ where: { sessionId, userId } })
LeaveDelete_Strict(p) ==
    /\ pc[p] = "leave_delete"
    /\ UNCHANGED <<Session, nextSessionId, req, served>>
    /\ IF SessionAttendee[req[p].sessionId][req[p].userId] > 0
       THEN /\ SessionAttendee' =
                  [SessionAttendee EXCEPT ![req[p].sessionId][req[p].userId] = 0]
            /\ Goto(p, "leave_refetch")
       ELSE /\ UNCHANGED SessionAttendee
            /\ Finish(p, Reply(500, "Failed to leave session"))

LeaveDelete(p) ==
    /\ pc[p] = "leave_delete"
    /\ UNCHANGED <<Session, nextSessionId, req, served>>
    /\ SessionAttendee' = [SessionAttendee EXCEPT ![req[p].sessionId][req[p].userId] = 0]
    /\ Goto(p, "leave_refetch")

LeaveRefetch(p) ==
    /\ pc[p] = "leave_refetch"
    /\ UNCHANGED <<store, req, served>>
    /\ Finish(p, SessionBody(req[p].sessionId))

\* ---- DELETE /api/sessions/:id
DeleteFind_AnyUser(p, userId, sessionId) ==
    /\ Accept(p, [op |-> "delete", userId |-> userId, sessionId |-> sessionId])
    /\ UNCHANGED store
    /\ IF ~found(sessionId) THEN Finish(p, Reply(404, "Session not found"))
       ELSE Goto(p, "delete_attendees")

DeleteFind(p, userId, sessionId) ==
    /\ Accept(p, [op |-> "delete", userId |-> userId, sessionId |-> sessionId])
    /\ UNCHANGED store
    /\ IF ~found(sessionId) THEN Finish(p, Reply(404, "Session not found"))
       ELSE IF Session[sessionId].userId # userId
            THEN Finish(p, Reply(403, "You can only delete your own sessions"))
       ELSE Goto(p, "delete_attendees")

\* prisma.sessionAttendee.deleteMany({ where: { sessionId } })
DeleteAttendees(p) ==
    /\ pc[p] = "delete_attendees"
    /\ UNCHANGED <<Session, nextSessionId, req, served>>
    /\ SessionAttendee' = [SessionAttendee EXCEPT ![req[p].sessionId] = [u \in Users |-> 0]]
    /\ Goto(p, "delete_session")

\* prisma.session.delete: throws when the row is gone, cascades to the attendee rows
DeleteSession(p) ==
    /\ pc[p] = "delete_session"
    /\ UNCHANGED <<nextSessionId, req, served>>
    /\ LET s == req[p].sessionId
       IN IF found(s)
          THEN /\ Session' = [Session EXCEPT ![s] = NoSession]
               /\ SessionAttendee' = Cascade(s)
               /\ Finish(p, Reply(200, "Session deleted successfully"))
          ELSE /\ UNCHANGED <<Session, SessionAttendee>>
               /\ Finish(p, Reply(500, "Failed to delete session"))

\* ---- POST /api/artworks
\* multer's req.file and the Cloudinary upload: image is "none" when the request
\* carries no file, "bad" when the upload throws, "ok" otherwise
ArtworkUpload(p, userId, image) ==
    /\ image = "ok" =>
          nextArtworkId + Cardinality({q \in Procs : pc[q] = "artwork_create"}) <= MaxArtworks
    /\ Accept(p, [op |-> "upload", userId |-> userId])
    /\ UNCHANGED <<store, contentTables, existingLike>>
    /\ IF image = "none" THEN Finish(p, Reply(400, "Image is required"))
       ELSE IF image = "bad" THEN Finish(p, Reply(500, "Server error"))
       ELSE Goto(p, "artwork_create")

\* prisma.artwork.create and res.status(201).json(artwork)
ArtworkCreate(p) ==
    /\ pc[p] = "artwork_create"
    /\ UNCHANGED <<store, Like, Comment, nextLikeId, Post, nextPostId, existingLike,
                   req, served>>
    /\ Artwork' = [Artwork EXCEPT ![nextArtworkId] =
                     [present |-> TRUE, userId |-> req[p].userId]]
    /\ nextArtworkId' = nextArtworkId + 1
    /\ Finish(p, Reply(201, ""))

\* ---- POST /api/artworks/:id/like
\* prisma.artwork.findUnique({ where: { id } }) returned a row
artworkFound(artworkId) == artworkId \in ArtworkIds /\ Artwork[artworkId].present

\* the rows of "Like" for one (userId, artworkId)
likesOf(userId, artworkId) == {l \in Like : l.userId = userId /\ l.artworkId = artworkId}

\* the users who like an artwork
likedBy(artworkId) == {l.userId : l \in {k \in Like : k.artworkId = artworkId}}

\* the compound unique key userId_artworkId of "Like"
LikeUniqueOk_NoIndex(userId, artworkId) == TRUE
LikeUniqueOk(userId, artworkId) == likesOf(userId, artworkId) = {}

\* "Like".artworkId references "Artwork"(id)
LikeFkOk(artworkId) == artworkFound(artworkId)

\* res.json({ message, liked })
LikeReply(message, liked) ==
    [status |-> 200, error |-> "", hasSession |-> FALSE, owner |-> 0, attendees |-> {},
     message |-> message, liked |-> liked]

\* if (existingLike): which store call the handler makes after findUnique
likeBranch_AlwaysCreate(userId, artworkId) == "like_create"
likeBranch(userId, artworkId) ==
    IF likesOf(userId, artworkId) # {} THEN "like_delete" ELSE "like_create"

\* prisma.like.findUnique({ where: { userId_artworkId } })
LikeFind(p, userId, artworkId) ==
    /\ Accept(p, [op |-> "like", userId |-> userId, artworkId |-> artworkId])
    /\ UNCHANGED <<store, contentTables>>
    /\ LET rows == likesOf(userId, artworkId)
       IN existingLike' = [existingLike EXCEPT ![p] =
             IF rows = {} THEN 0
             ELSE (CHOOSE l \in rows : \A k \in rows : l.id <= k.id).id]
    /\ Goto(p, likeBranch(userId, artworkId))

\* prisma.like.delete({ where: { id: existingLike.id } }): throws when the row is gone
LikeDelete(p) ==
    /\ pc[p] = "like_delete"
    /\ UNCHANGED <<store, Artwork, Comment, nextArtworkId, nextLikeId, Post, nextPostId,
                   req, served>>
    /\ existingLike' = [existingLike EXCEPT ![p] = 0]
    /\ IF \E l \in Like : l.id = existingLike[p]
       THEN /\ Like' = {l \in Like : l.id # existingLike[p]}
            /\ Finish(p, LikeReply("Unliked", FALSE))
       ELSE /\ UNCHANGED Like
            /\ Finish(p, Reply(500, "Server error"))

\* prisma.like.create: a constraint violation throws into the catch
LikeCreate(p) ==
    /\ pc[p] = "like_create"
    /\ UNCHANGED <<store, Artwork, Comment, nextArtworkId, Post, nextPostId,
                   existingLike, req, served>>
    /\ LET u == req[p].userId
           a == req[p].artworkId
       IN IF LikeFkOk(a) /\ LikeUniqueOk(u, a)
          THEN /\ Like' = Like \cup {[id |-> nextLikeId, userId |-> u, artworkId |-> a]}
               /\ nextLikeId' = nextLikeId + 1
               /\ Finish(p, LikeReply("Liked", TRUE))
          ELSE /\ UNCHANGED <<Like, nextLikeId>>
               /\ Finish(p, Reply(500, "Server error"))

\* ---- POST /api/artworks/:id/comments
\* prisma.comment.create; "Comment".artworkId references "Artwork"(id)
CommentCreate(p, userId, artworkId, content) ==
    /\ Accept(p, [op |-> "comment", userId |-> userId, artworkId |-> artworkId])
    /\ UNCHANGED <<store, Artwork, Like, nextArtworkId, nextLikeId, Post, nextPostId,
                   existingLike>>
    /\ IF ~content
       THEN /\ UNCHANGED Comment
            /\ Finish(p, Reply(400, "Comment content is required"))
       ELSE IF artworkFound(artworkId)
       THEN /\ Comment' = [Comment EXCEPT ![artworkId] = @ + 1]
            /\ Finish(p, Reply(201, ""))
       ELSE /\ UNCHANGED Comment
            /\ Finish(p, Reply(500, "Server error"))

\* ---- DELETE /api/artworks/:id
ArtworkDeleteFind_AnyUser(p, userId, artworkId) ==
    /\ Accept(p, [op |-> "delete_artwork", userId |-> userId, artworkId |-> artworkId])
    /\ UNCHANGED <<store, contentTables, existingLike>>
    /\ IF ~artworkFound(artworkId) THEN Finish(p, Reply(404, "Artwork not found"))
       ELSE Goto(p, "artwork_delete_likes")

ArtworkDeleteFind(p, userId, artworkId) ==
    /\ Accept(p, [op |-> "delete_artwork", userId |-> userId, artworkId |-> artworkId])
    /\ UNCHANGED <<store, contentTables, existingLike>>
    /\ IF ~artworkFound(artworkId) THEN Finish(p, Reply(404, "Artwork not found"))
       ELSE IF Artwork[artworkId].userId # userId
            THEN Finish(p, Reply(403, "You can only delete your own artworks"))
       ELSE Goto(p, "artwork_delete_likes")

\* prisma.like.deleteMany({ where: { artworkId } })
ArtworkDeleteLikes(p) ==
    /\ pc[p] = "artwork_delete_likes"
    /\ UNCHANGED <<store, Artwork, Comment, nextArtworkId, nextLikeId, Post, nextPostId,
                   existingLike, req, served>>
    /\ Like' = {l \in Like : l.artworkId # req[p].artworkId}
    /\ Goto(p, "artwork_delete_comments")

\* prisma.comment.deleteMany({ where: { artworkId } })
ArtworkDeleteComments(p) ==
    /\ pc[p] = "artwork_delete_comments"
    /\ UNCHANGED <<store, Artwork, Like, nextArtworkId, nextLikeId, Post, nextPostId,
                   existingLike, req, served>>
    /\ Comment' = [Comment EXCEPT ![req[p].artworkId] = 0]
    /\ Goto(p, "artwork_delete")

\* prisma.artwork.delete: throws when the row is gone.  Likes and comments written
\* since the two deleteMany calls still reference the row; what their foreign keys
\* do then is fixed by a schema that is not part of the sources, so the delete
\* either takes them along or throws
ArtworkDelete(p) ==
    /\ pc[p] = "artwork_delete"
    /\ UNCHANGED <<store, nextArtworkId, nextLikeId, Post, nextPostId, existingLike,
                   req, served>>
    /\ LET a == req[p].artworkId
           removed == /\ Artwork' = [Artwork EXCEPT ![a] = NoArtwork]
                      /\ Like' = {l \in Like : l.artworkId # a}
                      /\ Comment' = [Comment EXCEPT ![a] = 0]
                      /\ Finish(p, Reply(200, "Artwork deleted successfully"))
           thrown == /\ UNCHANGED <<Artwork, Like, Comment>>
                     /\ Finish(p, Reply(500, "Failed to delete artwork"))
       IN IF ~artworkFound(a) THEN thrown
          ELSE IF likedBy(a) = {} /\ Comment[a] = 0 THEN removed
          ELSE removed \/ thrown

\* ---- POST /api/posts
postFound(postId) == postId \in PostIds /\ Post[postId].present

PostCreate(p, userId, content) ==
    /\ content => nextPostId <= MaxPosts
    /\ Accept(p, [op |-> "post", userId |-> userId])
    /\ UNCHANGED <<store, Artwork, Like, Comment, nextArtworkId, nextLikeId,
                   existingLike>>
    /\ IF ~content
       THEN /\ UNCHANGED <<Post, nextPostId>>
            /\ Finish(p, Reply(400, "Content is required"))
       ELSE /\ Post' = [Post EXCEPT ![nextPostId] = [present |-> TRUE, userId |-> userId]]
            /\ nextPostId' = nextPostId + 1
            /\ Finish(p, Reply(201, ""))

\* ---- DELETE /api/posts/:id
PostDeleteFind(p, userId, postId) ==
    /\ Accept(p, [op |-> "delete_post", userId |-> userId, postId |-> postId])
    /\ UNCHANGED <<store, contentTables, existingLike>>
    /\ IF ~postFound(postId) THEN Finish(p, Reply(404, "Post not found"))
       ELSE IF Post[postId].userId # userId
            THEN Finish(p, Reply(403, "You can only delete your own posts"))
       ELSE Goto(p, "post_delete")

\* prisma.post.delete: throws when the row is gone
PostDelete(p) ==
    /\ pc[p] = "post_delete"
    /\ UNCHANGED <<store, Artwork, Like, Comment, nextArtworkId, nextLikeId, nextPostId,
                   existingLike, req, served>>
    /\ IF postFound(req[p].postId)
       THEN /\ Post' = [Post EXCEPT ![req[p].postId] = NoPost]
            /\ Finish(p, Reply(200, "Post deleted successfully"))
       ELSE /\ UNCHANGED Post
            /\ Finish(p, Reply(500, "Failed to delete post"))

\* ---- the server process
\* the node process dies and restarts: handlers in flight are gone, the store stays
Crash ==
    /\ \E p \in Procs : pc[p] # "idle"
    /\ pc' = [p \in Procs |-> "idle"]
    /\ req' = [p \in Procs |-> NoReq]
    /\ resp' = [p \in Procs |-> NoResp]
    /\ existingLike' = [p \in Procs |-> 0]
    /\ authorization' = [p \in Procs |-> NoHeader]
    /\ UNCHANGED <<store, contentTables, script, served>>

\* ---- the requests the server accepts
CreateSessionRequest ==
    \E p \in Procs : Arrive(p) /\ \E u \in Users : \E c \in CapInputs : CreateSession(p, u, c)

JoinRequest ==
    \E p \in Procs : Arrive(p) /\ \E u \in Users : \E s \in SessionIds : JoinFind(p, u, s)

LeaveRequest ==
    \E p \in Procs : Arrive(p) /\ \E u \in Users : \E s \in SessionIds : LeaveFind(p, u, s)

DeleteRequest ==
    \E p \in Procs : Arrive(p) /\ \E u \in Users : \E s \in SessionIds : DeleteFind(p, u, s)

ArtworkUploadRequest ==
    \E p \in Procs : Arrive(p) /\ \E u \in Users : \E i \in {"none", "bad", "ok"} :
        ArtworkUpload(p, u, i)

LikeRequest ==
    \E p \in Procs : Arrive(p) /\ \E u \in Users : \E a \in ArtworkIds : LikeFind(p, u, a)

CommentRequest ==
    \E p \in Procs : Arrive(p) /\ \E u \in Users : \E a \in ArtworkIds : \E c \in BOOLEAN :
        CommentCreate(p, u, a, c)

ArtworkDeleteRequest ==
    \E p \in Procs : Arrive(p) /\ \E u \in Users : \E a \in ArtworkIds :
        ArtworkDeleteFind(p, u, a)

PostRequest ==
    \E p \in Procs : Arrive(p) /\ \E u \in Users : \E c \in BOOLEAN : PostCreate(p, u, c)

PostDeleteRequest ==
    \E p \in Procs : Arrive(p) /\ \E u \in Users : \E i \in PostIds : PostDeleteFind(p, u, i)

\* what a session handler leaves alone
aside == <<contentTables, existingLike, client>>

Next ==
    \/ CreateSessionRequest /\ UNCHANGED aside
    \/ JoinRequest /\ UNCHANGED aside
    \/ \E p \in Procs : JoinCreate(p) /\ UNCHANGED aside
    \/ \E p \in Procs : JoinRefetch(p) /\ UNCHANGED aside
    \/ LeaveRequest /\ UNCHANGED aside
    \/ \E p \in Procs : LeaveDelete(p) /\ UNCHANGED aside
    \/ \E p \in Procs : LeaveRefetch(p) /\ UNCHANGED aside
    \/ DeleteRequest /\ UNCHANGED aside
    \/ \E p \in Procs : DeleteAttendees(p) /\ UNCHANGED aside
    \/ \E p \in Procs : DeleteSession(p) /\ UNCHANGED aside
    \/ Crash

Spec == Init /\ [][Next]_vars

\* ---- join requests alone, on a session that has just been created
\* the store after one POST /api/sessions with a positive capacity: the creator's
\* row is the only attendee row
InitJoin ==
    /\ \E c \in Users : \E m \in 1..MaxCap :
          /\ Session = [s \in SessionIds |->
                          IF s = 1 THEN [present |-> TRUE, userId |-> c, maxAttendees |-> m]
                          ELSE NoSession]
          /\ SessionAttendee = [s \in SessionIds |->
                                  [u \in Users |-> IF s = 1 /\ u = c THEN 1 ELSE 0]]
    /\ nextSessionId = 2
    /\ InitContent
    /\ script = NoScript
    /\ authorization = [p \in Procs |-> NoHeader]
    /\ pc = [p \in Procs |-> "idle"]
    /\ req = [p \in Procs |-> NoReq]
    /\ resp = [p \in Procs |-> NoResp]
    /\ served = 1

NextJoin ==
    \/ JoinRequest /\ UNCHANGED aside
    \/ \E p \in Procs : JoinCreate(p) /\ UNCHANGED aside
    \/ \E p \in Procs : JoinRefetch(p) /\ UNCHANGED aside

SpecJoin == InitJoin /\ [][NextJoin]_vars

\* ---- the artwork routes alone
NextContent ==
    \/ ArtworkUploadRequest /\ UNCHANGED client
    \/ \E p \in Procs : ArtworkCreate(p) /\ UNCHANGED client
    \/ LikeRequest /\ UNCHANGED client
    \/ \E p \in Procs : LikeDelete(p) /\ UNCHANGED client
    \/ \E p \in Procs : LikeCreate(p) /\ UNCHANGED client
    \/ CommentRequest /\ UNCHANGED client
    \/ ArtworkDeleteRequest /\ UNCHANGED client
    \/ \E p \in Procs : ArtworkDeleteLikes(p) /\ UNCHANGED client
    \/ \E p \in Procs : ArtworkDeleteComments(p) /\ UNCHANGED client
    \/ \E p \in Procs : ArtworkDelete(p) /\ UNCHANGED client
    \/ Crash

SpecContent == Init /\ [][NextContent]_vars

\* ---- the routes that create and delete what a user owns, the create requests
\* well-formed: a positive capacity, an image that uploads, a post with content
OwnCreateRequest ==
    \E p \in Procs : Arrive(p) /\ \E u \in Users :
        \/ \E c \in 1..MaxCap : CreateSession(p, u, c) /\ UNCHANGED aside
        \/ ArtworkUpload(p, u, "ok") /\ UNCHANGED client
        \/ PostCreate(p, u, TRUE) /\ UNCHANGED client

NextOwn ==
    \/ OwnCreateRequest
    \/ DeleteRequest /\ UNCHANGED aside
    \/ \E p \in Procs : DeleteAttendees(p) /\ UNCHANGED aside
    \/ \E p \in Procs : DeleteSession(p) /\ UNCHANGED aside
    \/ \E p \in Procs : ArtworkCreate(p) /\ UNCHANGED client
    \/ ArtworkDeleteRequest /\ UNCHANGED client
    \/ \E p \in Procs : ArtworkDeleteLikes(p) /\ UNCHANGED client
    \/ \E p \in Procs : ArtworkDeleteComments(p) /\ UNCHANGED client
    \/ \E p \in Procs : ArtworkDelete(p) /\ UNCHANGED client
    \/ PostDeleteRequest /\ UNCHANGED client
    \/ \E p \in Procs : PostDelete(p) /\ UNCHANGED client
    \/ Crash

SpecOwn == Init /\ [][NextOwn]_vars

\* ---- one client that sends its requests one after the other
\* user A creates a session, B joins, C joins, B leaves, A leaves, A deletes the
\* session, B asks for it again
Enrollment(A, B, C, maxAttendees) ==
    << [op |-> "create", userId |-> A, maxAttendees |-> maxAttendees],
       [op |-> "join", userId |-> B, sessionId |-> 1],
       [op |-> "join", userId |-> C, sessionId |-> 1],
       [op |-> "leave", userId |-> B, sessionId |-> 1],
       [op |-> "leave", userId |-> A, sessionId |-> 1],
       [op |-> "delete", userId |-> A, sessionId |-> 1],
       [op |-> "join", userId |-> B, sessionId |-> 1] >>

\* user o uploads an artwork, user u toggles its like n times
Toggles(o, u, n) ==
    [k \in 1..(n + 1) |->
        IF k = 1 THEN [op |-> "upload", userId |-> o, artworkId |-> 0]
        ELSE [op |-> "like", userId |-> u, artworkId |-> 1]]

Scripts ==
    {Enrollment(A, B, C, m) : <<A, B, C, m>> \in
        {t \in Users \X Users \X Users \X CapInputs :
            t[1] # t[2] /\ t[1] # t[3] /\ t[2] # t[3]}}
    \cup {Toggles(t[1], t[2], t[3]) : t \in Users \X Users \X (2..MaxToggles)}

InitScenario ==
    /\ InitContent
    /\ Session = [s \in SessionIds |-> NoSession]
    /\ SessionAttendee = [s \in SessionIds |-> [u \in Users |-> 0]]
    /\ nextSessionId = 1
    /\ pc = [p \in Procs |-> "idle"]
    /\ req = [p \in Procs |-> NoReq]
    /\ resp = [p \in Procs |-> NoResp]
    /\ served = 0
    /\ script \in {[steps |-> x, at |-> 0, out |-> <<>>, likes |-> <<>>] : x \in Scripts}
    /\ authorization = [p \in Procs |-> NoHeader]

\* the client's next request goes out when the last one is answered; it notes the
\* answer it got and the likes it leaves behind
Send(r) ==
    \/ r.op = "create" /\ CreateSession(1, r.userId, r.maxAttendees)
                       /\ UNCHANGED <<contentTables, existingLike>>
    \/ r.op = "join" /\ JoinFind(1, r.userId, r.sessionId)
                     /\ UNCHANGED <<contentTables, existingLike>>
    \/ r.op = "leave" /\ LeaveFind(1, r.userId, r.sessionId)
                      /\ UNCHANGED <<contentTables, existingLike>>
    \/ r.op = "delete" /\ DeleteFind(1, r.userId, r.sessionId)
                       /\ UNCHANGED <<contentTables, existingLike>>
    \/ r.op = "upload" /\ ArtworkUpload(1, r.userId, "ok")
    \/ r.op = "like" /\ LikeFind(1, r.userId, r.artworkId)

ScriptStep ==
    /\ \A q \in Procs : pc[q] = "idle"
    /\ script.at < Len(script.steps)
    /\ Send(script.steps[script.at + 1])
    /\ UNCHANGED authorization
    /\ script' = [script EXCEPT !.at = @ + 1,
                                !.out = Append(@, resp[1]),
                                !.likes = Append(@, Like)]

NextScenario ==
    \/ ScriptStep
    \/ JoinCreate(1) /\ UNCHANGED aside
    \/ JoinRefetch(1) /\ UNCHANGED aside
    \/ LeaveDelete(1) /\ UNCHANGED aside
    \/ LeaveRefetch(1) /\ UNCHANGED aside
    \/ DeleteAttendees(1) /\ UNCHANGED aside
    \/ DeleteSession(1) /\ UNCHANGED aside
    \/ ArtworkCreate(1) /\ UNCHANGED client
    \/ LikeCreate(1) /\ UNCHANGED client
    \/ LikeDelete(1) /\ UNCHANGED client

SpecScenario == InitScenario /\ [][NextScenario]_vars

\* ---- the session and like routes behind authenticateToken
\* jwt.sign({ id }): the tokens the server has issued, valid while jwt.verify
\* accepts their signature and expiry
NoToken == [id |-> 0, valid |-> FALSE]
Tokens == [id : Users, valid : {TRUE}] \cup [id : {1}, valid : {FALSE}]

\* req.headers['authorization'], as the words authHeader.split(' ') yields
\* the scheme word comes first; the middleware never reads it
Schemes == {"Bearer", "Basic"}
Headers ==
    {NoHeader} \cup {<<s>> : s \in Schemes} \cup {<<s, t>> : s \in Schemes, t \in Tokens}

\* authHeader && authHeader.split(' ')[1]
token(authHeader) == IF Len(authHeader) >= 2 THEN authHeader[2] ELSE NoToken

\* the middleware's answer, NoResp when it calls next() with req.userId = user.id
authenticateToken_NoVerify(authHeader) ==
    IF token(authHeader) = NoToken
    THEN Reply(401, "Access denied. No token provided.")
    ELSE NoResp

authenticateToken(authHeader) ==
    IF token(authHeader) = NoToken
    THEN Reply(401, "Access denied. No token provided.")
    ELSE IF ~token(authHeader).valid THEN Reply(403, "Invalid token")
    ELSE NoResp

Routes == {"create", "join", "leave", "delete", "like"}

\* the handler express calls after next(); a create asks for MaxCap places
Handler(p, route, userId) ==
    \/ /\ route = "create"
       /\ CreateSession(p, userId, MaxCap)
       /\ UNCHANGED <<contentTables, existingLike, script>>
    \/ /\ route = "join"
       /\ \E s \in SessionIds : JoinFind(p, userId, s)
       /\ UNCHANGED <<contentTables, existingLike, script>>
    \/ /\ route = "leave"
       /\ \E s \in SessionIds : LeaveFind(p, userId, s)
       /\ UNCHANGED <<contentTables, existingLike, script>>
    \/ /\ route = "delete"
       /\ \E s \in SessionIds : DeleteFind(p, userId, s)
       /\ UNCHANGED <<contentTables, existingLike, script>>
    \/ /\ route = "like"
       /\ \E a \in ArtworkIds : LikeFind(p, userId, a)
       /\ UNCHANGED script

ApiRequest ==
    \E p \in Procs : Arrive(p) /\ \E h \in Headers : \E route \in Routes :
        /\ authorization' = [authorization EXCEPT ![p] = h]
        /\ IF authenticateToken(h) = NoResp
           THEN Handler(p, route, token(h).id)
           ELSE /\ Accept(p, [op |-> route, userId |-> 0, sessionId |-> 0])
                /\ Finish(p, authenticateToken(h))
                /\ UNCHANGED <<store, contentTables, existingLike, script>>

\* the store calls a handler in flight goes on to when the last one returns
ApiContinue ==
    \/ \E p \in Procs : JoinCreate(p) /\ UNCHANGED aside
    \/ \E p \in Procs : JoinRefetch(p) /\ UNCHANGED aside
    \/ \E p \in Procs : LeaveDelete(p) /\ UNCHANGED aside
    \/ \E p \in Procs : LeaveRefetch(p) /\ UNCHANGED aside
    \/ \E p \in Procs : DeleteAttendees(p) /\ UNCHANGED aside
    \/ \E p \in Procs : DeleteSession(p) /\ UNCHANGED aside
    \/ \E p \in Procs : LikeCreate(p) /\ UNCHANGED client
    \/ \E p \in Procs : LikeDelete(p) /\ UNCHANGED client

\* the store after user 1 uploaded an artwork and, in some runs, created a session
InitApi ==
    /\ Artwork = [a \in ArtworkIds |->
                     IF a = 1 THEN [present |-> TRUE, userId |-> 1] ELSE NoArtwork]
    /\ nextArtworkId = 2
    /\ Like = {}
    /\ Comment = [a \in ArtworkIds |-> 0]
    /\ nextLikeId = 1
    /\ Post = [i \in PostIds |-> NoPost]
    /\ nextPostId = 1
    /\ existingLike = [p \in Procs |-> 0]
    /\ \E created \in BOOLEAN :
          /\ Session = [s \in SessionIds |->
                          IF created /\ s = 1
                          THEN [present |-> TRUE, userId |-> 1, maxAttendees |-> MaxCap]
                          ELSE NoSession]
          /\ SessionAttendee = [s \in SessionIds |-> [u \in Users |->
                                  IF created /\ s = 1 /\ u = 1 THEN 1 ELSE 0]]
          /\ nextSessionId = IF created THEN 2 ELSE 1
    /\ script = NoScript
    /\ authorization = [p \in Procs |-> NoHeader]
    /\ pc = [p \in Procs |-> "idle"]
    /\ req = [p \in Procs |-> NoReq]
    /\ resp = [p \in Procs |-> NoResp]
    /\ served = 1

NextApi == ApiRequest \/ ApiContinue

SpecApi == InitApi /\ [][NextApi]_vars

\* a request authenticateToken passed on with next(), req.userId set
HandlerRequest ==
    \E p \in Procs : Arrive(p) /\ \E userId \in Users : \E route \in Routes :
        Handler(p, route, userId) /\ UNCHANGED authorization

NextHandlers == HandlerRequest \/ ApiContinue

\* node runs the continuation of every store call that has returned
SpecHandlers == InitApi /\ [][NextHandlers]_vars /\ WF_vars(ApiContinue)

TypeOK ==
    /\ nextSessionId \in 1..(MaxSessions + 1)
    /\ served \in Nat
    /\ \A s \in SessionIds : \A u \in Users : SessionAttendee[s][u] \in 0..NumProcs
    /\ \A p \in Procs : pc[p] \in {"idle", "join_create", "join_refetch", "leave_delete",
                                   "leave_refetch", "delete_attendees", "delete_session",
                                   "artwork_create", "like_delete", "like_create",
                                   "artwork_delete_likes", "artwork_delete_comments",
                                   "artwork_delete", "post_delete"}
    /\ nextArtworkId \in 1..(MaxArtworks + 1)
    /\ nextPostId \in 1..(MaxPosts + 1)
    /\ \A l \in Like : l.id < nextLikeId /\ l.userId \in Users /\ l.artworkId \in ArtworkIds
    /\ \A p \in Procs : existingLike[p] < nextLikeId

\* ------------------------------------------------------------------ claims
\* slot p has answered a request of kind op
Answered(p, op) == pc[p] = "idle" /\ req[p].op = op /\ resp[p] # NoResp

\* this step is the arrival of a request of kind op in slot p: req'[p] is the request
Arrival(p, op) == served' = served + 1 /\ Arrive(p) /\ req'[p].op = op

\* C1 (as claimed): every session with a positive maxAttendees = N has at most N
\* attendee rows, in every reachable state.  Sessions created with a capacity that
\* is not positive are left out, so that what refutes it is the join race alone.
C1_Claim ==
    \A s \in SessionIds :
        (found(s) /\ Session[s].maxAttendees >= 1)
            => attendeesLength(s) <= Session[s].maxAttendees

\* the join requests by users other than the creator of s that have been answered
JoinersDone(s) ==
    {p \in Procs : Answered(p, "join") /\ req[p].sessionId = s
                      /\ req[p].userId # Session[s].userId}

\* C2 (as claimed): with maxAttendees = 1 and the creator the only attendee, two
\* join requests by two different users end with one 200 and one 400, and with
\* exactly 2 attendee rows.
C2_Claim ==
    \A s \in SessionIds : \A p, q \in Procs :
        (/\ found(s) /\ Session[s].maxAttendees = 1
         /\ p \in JoinersDone(s) /\ q \in JoinersDone(s)
         /\ req[p].userId # req[q].userId)
            => /\ {resp[p].status, resp[q].status} = {200, 400}
               /\ attendeesLength(s) = 2

\* C2 (amended): with maxAttendees = 1 and the creator the only attendee, every join
\* request by another user is answered 400 "Session is full", whatever runs beside
\* it, and the session keeps exactly 1 attendee row: the creator holds the one slot.
C2_BothRejected ==
    \A s \in SessionIds :
        (found(s) /\ Session[s].maxAttendees = 1)
            => /\ attendeesLength(s) = 1
               /\ \A p \in Procs :
                    (req[p].op = "join" /\ req[p].sessionId = s
                        /\ req[p].userId # Session[s].userId)
                        => (pc[p] = "idle" /\ resp[p] = Reply(400, "Session is full"))

\* two different users other than the creator have both been turned away
C2_Witness ==
    \E s \in SessionIds : \E p, q \in Procs :
        /\ found(s) /\ Session[s].maxAttendees = 1
        /\ p \in JoinersDone(s) /\ q \in JoinersDone(s)
        /\ req[p].userId # req[q].userId
        /\ resp[p].status = 400 /\ resp[q].status = 400

\* C3 (as claimed): when all the join requests are by one user who was not a member,
\* on a session with room left, and all are answered, exactly one got 200 and
\* every other one a 400 (already joined, or full); none got anything else.
C3_Claim ==
    \A s \in SessionIds : \A u \in Users :
        LET J == {p \in Procs : req[p].op = "join" /\ req[p].sessionId = s
                                   /\ req[p].userId = u}
        IN (/\ found(s) /\ u # Session[s].userId /\ Session[s].maxAttendees >= 2
            /\ Cardinality(J) >= 2
            /\ \A p \in Procs : req[p].op = "join" => p \in J
            /\ \A p \in J : Answered(p, "join"))
               => /\ Cardinality({p \in J : resp[p].status = 200}) = 1
                  /\ \A p \in J : resp[p].status \in {200, 400}

\* C4: no pair (sessionId, userId) ever has more than one SessionAttendee row.
C4_UniquePair ==
    \A s \in SessionIds : \A u \in Users : SessionAttendee[s][u] <= 1

\* a second insert of a pair was tried and the index refused it
C4_Witness ==
    \E p \in Procs :
        /\ Answered(p, "join") /\ resp[p] = Reply(500, "Failed to join session")
        /\ found(req[p].sessionId)
        /\ SessionAttendee[req[p].sessionId][req[p].userId] = 1

\* C5: a join request by a user who holds a row of the existing session it names
\* (when the handler reads it) is answered 400 "Already joined this session" at
\* once, and the tables are left as they were.
C5_AlreadyMemberRejected ==
    [][\A p \in Procs :
          (/\ Arrival(p, "join")
           /\ found(req'[p].sessionId)
           /\ SessionAttendee[req'[p].sessionId][req'[p].userId] > 0)
              => /\ pc'[p] = "idle"
                 /\ resp'[p] = Reply(400, "Already joined this session")
                 /\ SessionAttendee' = SessionAttendee
                 /\ Session' = Session]_vars

C5_Witness ==
    \E p \in Procs :
        /\ Answered(p, "join") /\ resp[p] = Reply(400, "Already joined this session")
        /\ found(req[p].sessionId)
        /\ SessionAttendee[req[p].sessionId][req[p].userId] = 1

\* C6 (as claimed): in every reachable state every existing session has its
\* creator among its attendees.
C6_Claim ==
    \A s \in SessionIds : found(s) => SessionAttendee[s][Session[s].userId] > 0

\* C7: a leave request by the creator of the existing session it names is answered
\* 400 "Cannot leave a session you created" at once, and the tables are left as
\* they were.
C7_CreatorCannotLeave ==
    [][\A p \in Procs :
          (/\ Arrival(p, "leave")
           /\ found(req'[p].sessionId)
           /\ Session[req'[p].sessionId].userId = req'[p].userId)
              => /\ pc'[p] = "idle"
                 /\ resp'[p] = Reply(400, "Cannot leave a session you created")
                 /\ SessionAttendee' = SessionAttendee
                 /\ Session' = Session]_vars

C7_Witness ==
    \E p \in Procs :
        /\ Answered(p, "leave") /\ resp[p] = Reply(400, "Cannot leave a session you created")
        /\ found(req[p].sessionId)
        /\ Session[req[p].sessionId].userId = req[p].userId
        /\ SessionAttendee[req[p].sessionId][req[p].userId] = 1

\* session s was created and is gone
Deleted(s) == s < nextSessionId /\ ~found(s)

\* C8: once a delete-session request has been answered 200, the session is gone and
\* has no attendee rows, for good; and a join or delete request that names a deleted
\* session is answered 404 "Session not found" and changes nothing.
C8_DeletedStaysGone ==
    /\ [](\A p \in Procs :
            (Answered(p, "delete") /\ resp[p].status = 200)
                => (~found(req[p].sessionId) /\ attendees(req[p].sessionId) = {}))
    /\ [][\A p \in Procs :
            (/\ (Arrival(p, "join") \/ Arrival(p, "delete"))
             /\ Deleted(req'[p].sessionId))
                => /\ pc'[p] = "idle"
                   /\ resp'[p] = Reply(404, "Session not found")
                   /\ SessionAttendee' = SessionAttendee
                   /\ Session' = Session]_vars

\* a delete was answered 200 and a later join on that session 404
C8_Witness ==
    \E p, q \in Procs :
        /\ Answered(p, "delete") /\ resp[p].status = 200
        /\ Answered(q, "join") /\ resp[q] = Reply(404, "Session not found")
        /\ req[q].sessionId = req[p].sessionId

\* C9: every SessionAttendee row names a session that exists, in every reachable
\* state: after a crash between the two steps of a delete, and when a join inserts
\* its row between them.
C9_NoOrphanRows ==
    \A s \in SessionIds : \A u \in Users : SessionAttendee[s][u] > 0 => found(s)

\* a join has inserted its row, and the session was then deleted under it
C9_Witness ==
    \E p \in Procs : pc[p] = "join_refetch" /\ Deleted(req[p].sessionId)

\* C10 (as claimed): no caller sees a delete half done.  A session row without its
\* creator's attendee row exists only between the two steps of a delete, so: no
\* response carries a session whose attendee list lacks its creator, and when no
\* handler is running (all have answered, or the server has crashed) no session
\* is left without attendee rows.
C10_Claim ==
    /\ \A p \in Procs : resp[p].hasSession => resp[p].owner \in resp[p].attendees
    /\ (\A p \in Procs : pc[p] = "idle")
          => \A s \in SessionIds : found(s) => attendees(s) # {}

\* C11: a delete request for an existing session, artwork or post from a user who
\* does not own it is answered 403 at once (never 404), and every table is left as
\* it was: the resource and its attendee rows, likes and comments stay.
C11_NonOwnerDeleteForbidden ==
    [][\A p \in Procs :
          (served' = served + 1 /\ Arrive(p))
             => LET r == req'[p]
                    refused(error) == /\ pc'[p] = "idle"
                                      /\ resp'[p] = Reply(403, error)
                                      /\ UNCHANGED <<store, contentTables>>
                IN /\ (/\ r.op = "delete"
                       /\ found(r.sessionId)
                       /\ Session[r.sessionId].userId # r.userId)
                          => refused("You can only delete your own sessions")
                   /\ (/\ r.op = "delete_artwork"
                       /\ artworkFound(r.artworkId)
                       /\ Artwork[r.artworkId].userId # r.userId)
                          => refused("You can only delete your own artworks")
                   /\ (/\ r.op = "delete_post"
                       /\ postFound(r.postId)
                       /\ Post[r.postId].userId # r.userId)
                          => refused("You can only delete your own posts")]_vars

C11_Witness ==
    \E p \in Procs :
        /\ Answered(p, "delete_artwork")
        /\ resp[p].status = 403
        /\ artworkFound(req[p].artworkId)
        /\ Artwork[req[p].artworkId].userId # req[p].userId

\* the client's k-th and (k+1)-th requests are like toggles of one user on one artwork
TogglePair(k) ==
    /\ k + 1 <= Len(script.steps)
    /\ script.steps[k].op = "like"
    /\ script.steps[k + 1] = script.steps[k]

\* C12: when a client has sent two like toggles for the same (user, artwork) one
\* after the other and both are answered, the like exists exactly if it existed
\* before the first toggle, both answers are 200, and they carry liked: true and
\* liked: false in the order that undoes the first with the second.
C12_ToggleTwiceRestores ==
    \A k \in 1..(MaxToggles + 1) :
        (TogglePair(k) /\ script.at = k + 1 /\ pc[1] = "idle")
            => LET u == script.steps[k].userId
                   a == script.steps[k].artworkId
                   before == \E l \in script.likes[k] : l.userId = u /\ l.artworkId = a
                   first == script.out[k + 1]
                   second == resp[1]
               IN /\ (likesOf(u, a) # {}) = before
                  /\ first.status = 200 /\ second.status = 200
                  /\ first.liked = ~before
                  /\ second.liked = before

C12_Witness ==
    \E k \in 1..(MaxToggles + 1) :
        /\ TogglePair(k) /\ script.at = k + 1 /\ pc[1] = "idle"
        /\ \E l \in script.likes[k] : l.userId = script.steps[k].userId
        /\ likesOf(script.steps[k].userId, script.steps[k].artworkId) # {}
        /\ resp[1] = LikeReply("Liked", TRUE)
        /\ script.out[k + 1] = LikeReply("Unliked", FALSE)

\* C13: in every reachable state there is at most one Like row for a (userId,
\* artworkId) pair, however the toggles of one user on one artwork interleave.
C13_OneLikePerPair ==
    \A u \in Users : \A a \in ArtworkIds : Cardinality(likesOf(u, a)) <= 1

C13_Witness ==
    \E p \in Procs : \E q \in Procs :
        /\ Answered(p, "like") /\ Answered(q, "like")
        /\ req[p] = req[q]
        /\ resp[p] = LikeReply("Liked", TRUE)
        /\ resp[q].status = 500
        /\ Cardinality(likesOf(req[p].userId, req[p].artworkId)) = 1

\* C14 (as claimed): when two like toggles for the same (user, artwork) on an
\* existing artwork have both been answered, neither answer is an error.
C14_Claim ==
    \A p \in Procs : \A q \in Procs :
        (/\ p # q
         /\ Answered(p, "like") /\ Answered(q, "like")
         /\ req[p] = req[q]
         /\ artworkFound(req[p].artworkId))
            => resp[p].status = 200 /\ resp[q].status = 200

\* C15 (as claimed): a like toggle whose artwork does not exist is answered 404 and
\* writes no Like row.
C15_Claim ==
    [][\A p \in Procs :
          (/\ pc[p] = "like_create"
           /\ ~artworkFound(req[p].artworkId)
           /\ resp'[p] # NoResp)
              => /\ resp'[p].status = 404
                 /\ Like' = Like]_vars

\* C16 (as claimed): no session is created with a capacity that is not a positive
\* integer.
C16_Claim ==
    \A s \in SessionIds : found(s) => Session[s].maxAttendees >= 1

\* C17: the step of a create-session request that makes the session present also
\* writes its creator's attendee row, the only row of the session, and the request
\* is answered 200 with the session and the attendee list [U].
C17_CreateAtomic ==
    /\ [](\A p \in Procs :
            Answered(p, "create")
               => /\ resp[p].status = 200
                  /\ resp[p].hasSession
                  /\ resp[p].owner = req[p].userId
                  /\ resp[p].attendees = {req[p].userId})
    /\ [][\A s \in SessionIds :
            (~Session[s].present /\ Session'[s].present)
               => SessionAttendee'[s] =
                     [u \in Users |-> IF u = Session'[s].userId THEN 1 ELSE 0]]_vars

C17_Witness ==
    \E p \in Procs :
        /\ Answered(p, "create")
        /\ found(req[p].sessionId)
        /\ attendees(req[p].sessionId) = {req[p].userId}

\* C18 (as claimed): a leave request that names a session that does not exist is
\* answered 404 and changes no table.
C18_Claim ==
    [][\A p \in Procs :
          (Arrival(p, "leave") /\ ~found(req'[p].sessionId))
             => /\ resp'[p].status = 404
                /\ UNCHANGED store]_vars

\* C19: a leave request by a user who is not the creator of the existing session it
\* names is never rejected: it goes on to its deleteMany, which leaves the user
\* without a row and every other row alone (so changes nothing when the user had
\* none, and a second leave changes nothing after a first), and it is answered 200.
C19_LeaveIdempotent ==
    [][\A p \in Procs :
          /\ (/\ Arrival(p, "leave")
              /\ found(req'[p].sessionId)
              /\ Session[req'[p].sessionId].userId # req'[p].userId)
                 => /\ pc'[p] = "leave_delete"
                    /\ UNCHANGED store
          /\ (pc[p] = "leave_delete" /\ pc'[p] # "leave_delete")
                 => /\ resp'[p] = NoResp
                    /\ pc'[p] = "leave_refetch" =>
                          /\ SessionAttendee' = [SessionAttendee EXCEPT
                                                   ![req[p].sessionId][req[p].userId] = 0]
                          /\ Session' = Session
          /\ (pc[p] = "leave_refetch" /\ resp'[p] # NoResp)
                 => resp'[p].status = 200]_vars

C19_Witness ==
    \E p \in Procs :
        /\ served = 2
        /\ Answered(p, "leave")
        /\ resp[p].status = 200
        /\ resp[p].hasSession
        /\ req[p].userId \notin resp[p].attendees
        /\ resp[p].attendees = attendees(req[p].sessionId)

\* the client plays the enrollment scenario with capacity 2 and has the answer to
\* its k-th request
Played(k) ==
    /\ script.steps[1].op = "create"
    /\ script.steps[1].maxAttendees = 2
    /\ script.at = k
    /\ pc[1] = "idle"

\* C20: A creates a session with maxAttendees 2 and gets the attendee list [A]; B
\* joins and gets [A, B]; C's join is refused with "Session is full" and the list
\* stays [A, B]; B leaves and the list is [A]; A's leave is refused and the list
\* stays [A]; A deletes the session, and a later request for it is answered 404.
C20_Scenario ==
    LET A == script.steps[1].userId
        B == script.steps[2].userId
    IN /\ Played(1) => /\ resp[1].status = 200 /\ resp[1].attendees = {A}
                       /\ attendees(1) = {A}
       /\ Played(2) => /\ resp[1].status = 200 /\ resp[1].attendees = {A, B}
                       /\ attendees(1) = {A, B}
       /\ Played(3) => /\ resp[1] = Reply(400, "Session is full")
                       /\ attendees(1) = {A, B}
       /\ Played(4) => /\ resp[1].status = 200 /\ resp[1].attendees = {A}
                       /\ attendees(1) = {A}
       /\ Played(5) => /\ resp[1] = Reply(400, "Cannot leave a session you created")
                       /\ attendees(1) = {A}
       /\ Played(6) => /\ resp[1] = Reply(200, "Session deleted successfully")
                       /\ ~found(1) /\ attendees(1) = {}
       /\ Played(7) => /\ resp[1] = Reply(404, "Session not found")
                       /\ ~found(1)

C20_Witness ==
    /\ Played(7)
    /\ resp[1] = Reply(404, "Session not found")
    /\ Len(script.out) = 7
    /\ script.out[4].status = 400
    /\ script.out[5].status = 200

\* C22: a join request by a user who has no row in the existing session it names,
\* when the session has as many attendee rows as its maxAttendees or more, is
\* answered 400 "Session is full" at once and writes no row.
C22_FullRejected ==
    [][\A p \in Procs :
          (/\ Arrival(p, "join")
           /\ found(req'[p].sessionId)
           /\ SessionAttendee[req'[p].sessionId][req'[p].userId] = 0
           /\ attendeesLength(req'[p].sessionId) >= Session[req'[p].sessionId].maxAttendees)
              => /\ pc'[p] = "idle"
                 /\ resp'[p] = Reply(400, "Session is full")
                 /\ SessionAttendee' = SessionAttendee
                 /\ Session' = Session]_vars

\* a join was refused as full on a session that holds more rows than its capacity
C22_Witness ==
    \E p \in Procs :
        /\ Answered(p, "join")
        /\ resp[p] = Reply(400, "Session is full")
        /\ found(req[p].sessionId)
        /\ attendeesLength(req[p].sessionId) > Session[req[p].sessionId].maxAttendees

\* C23: join checks in the order missing session, already a member, full: a join
\* that names a missing session is answered 404 "Session not found", and a join by
\* a member of a full session is answered 400 "Already joined this session", not
\* "Session is full".
C23_CheckOrder ==
    [][\A p \in Procs :
          Arrival(p, "join")
             => LET s == req'[p].sessionId
                    u == req'[p].userId
                IN /\ ~found(s) => resp'[p] = Reply(404, "Session not found")
                   /\ (/\ found(s)
                       /\ SessionAttendee[s][u] > 0
                       /\ attendeesLength(s) >= Session[s].maxAttendees)
                         => resp'[p] = Reply(400, "Already joined this session")]_vars

C23_Witness ==
    \E p \in Procs :
        /\ served = 2
        /\ Answered(p, "join")
        /\ resp[p] = Reply(400, "Already joined this session")
        /\ found(req[p].sessionId)
        /\ attendeesLength(req[p].sessionId) >= Session[req[p].sessionId].maxAttendees

\* C24 (as claimed): every 200 answer to a join or leave request carries the
\* session with its attendee list, and for a join the list contains the caller.
C24_Claim ==
    \A p \in Procs :
        ((Answered(p, "join") \/ Answered(p, "leave")) /\ resp[p].status = 200)
            => /\ resp[p].hasSession
               /\ req[p].op = "join" => req[p].userId \in resp[p].attendees

StoreFailure(p) ==
    \/ /\ served' = served + 1 /\ Arrive(p)
       /\ req'[p].op = "leave" /\ pc'[p] = "idle"
       /\ ~found(req'[p].sessionId)
    \/ /\ pc[p] = "join_create" /\ pc'[p] # pc[p]
       /\ ~(FkOk(req[p].sessionId) /\ UniqueOk(req[p].sessionId, req[p].userId))
    \/ /\ pc[p] = "delete_session" /\ pc'[p] # pc[p]
       /\ ~found(req[p].sessionId)
    \/ /\ pc[p] = "like_create" /\ pc'[p] # pc[p]
       /\ ~(LikeFkOk(req[p].artworkId) /\ LikeUniqueOk(req[p].userId, req[p].artworkId))
    \/ /\ pc[p] = "like_delete" /\ pc'[p] # pc[p]
       /\ ~\E l \in Like : l.id = existingLike[p]

\* C25: every session or like request that authenticateToken passed on is answered:
\* a handler in flight has sent nothing yet and in the end is over with one
\* response sent, and a step in which its store call fails ends it with a 500.
C25_AnsweredOnce ==
    /\ [](\A p \in Procs : pc[p] # "idle" => resp[p] = NoResp)
    /\ [][\A p \in Procs :
            /\ (pc'[p] = "idle" /\ pc'[p] # pc[p]) => resp'[p].status # 0
            /\ (served' = served + 1 /\ Arrive(p) /\ pc'[p] = "idle")
                  => resp'[p].status # 0
            /\ StoreFailure(p) => (pc'[p] = "idle" /\ resp'[p].status = 500)]_vars
    /\ \A p \in Procs : (pc[p] # "idle") ~> (pc[p] = "idle" /\ resp[p].status # 0)

\* two joins of one user raced: the one the unique index refused was answered
\* 500, the other with the session
C25_Witness ==
    \E p \in Procs : \E q \in Procs :
        /\ Answered(p, "join") /\ resp[p] = Reply(500, "Failed to join session")
        /\ Answered(q, "join") /\ resp[q].status = 200
        /\ req[p] = req[q]

====
